---- MODULE Spec2Model ----
(***************************************************************************)
(* Market-data aggregation-and-cache engine of web_dashboard.py:           *)
(* the process-wide cache, the snapshot refresh cycle                      *)
(* (fetch_binance_tickers), the bounded long/short batch fetcher           *)
(* (fetch_ls_ratio_batch) and the API wrapper (api_binance_tickers).       *)
(*                                                                         *)
(* Conventions.  A Python dict is a function whose DOMAIN is its key set,  *)
(* d.get(k, default) is Get(d, k, default).  A symbol is the sequence of   *)
(* its parts, <<"BTC", "USDT">> for "BTCUSDT", so that endswith("USDT")    *)
(* and replace("USDT", "/USDT") are computed, not assumed.  Numbers that   *)
(* the code parses with float() from finite numeric strings are integers   *)
(* (funding rates in units of 0.0001); the long/short ratio, which may be  *)
(* non-finite, is a tagged pair <<kind, value>>.                           *)
(***************************************************************************)
EXTENDS Integers, Sequences, FiniteSets, TLC

----------------------------------------------------------------------------
(* Bounds of the model *)

\* last instant of the wall clock
MaxTime == 12
\* seconds the clock advances in one step of the snapshot specifications
TickStep == 5
\* longest upstream ticker list of the join specification
MaxTickers == 2
\* symbols beyond the semaphore's capacity in the long batches
MaxExtra == 1
\* longest of the short symbol lists given to the batch fetcher
MaxShort == 2
LsTickStep == 150
LsMaxTime == 450
MaxDays == 2
FngTickStep == 1800
FngMaxTime == 3600
OpsMaxTime == 300

(* Program constants *)

CacheTTL == 10
LsTTL == 300
FngTTL == 3600
FundingTop == 20
SemLimit == 20
LiquidityFloor == 1000000
DefaultInterval == 8
Sentinel == 9999

SNAP_KEY == "binance_tickers_100"
LS_KEY == "ls_ratio_batch"
FNG_KEY == "fear_and_greed"
FUNDING_KEY == "binance_funding"
PricesKeyCopied == "binance_tickers_100"
PRICES_KEY == "btc_eth_prices"

Resources == {"ticker", "funding", "info", "klines"}

----------------------------------------------------------------------------
(* Python dictionaries *)

EmptyDict == [k \in {} |-> 0]

Get(d, k, default) == IF k \in DOMAIN d THEN d[k] ELSE default

Put(d, k, v) == [x \in (DOMAIN d) \cup {k} |-> IF x = k THEN v ELSE d[x]]

----------------------------------------------------------------------------
(* Symbols *)

BTCUSDT == <<"BTC", "USDT">>
ETHUSDT == <<"ETH", "USDT">>
ETHBTC == <<"ETH", "BTC">>

Symbols == {BTCUSDT, ETHUSDT, ETHBTC}

\* sym.endswith("USDT")
EndsWithUSDT(sym) == Len(sym) > 0 /\ sym[Len(sym)] = "USDT"

\* sym.replace("USDT", "/USDT"): every occurrence is rewritten
RECURSIVE DisplaySymbol(_)
DisplaySymbol(sym) ==
    IF sym = <<>> THEN <<>>
    ELSE (IF Head(sym) = "USDT" THEN <<"/", "USDT">> ELSE <<Head(sym)>>)
         \o DisplaySymbol(Tail(sym))

----------------------------------------------------------------------------
(* Floats of the long/short ratio *)

Fin(n) == <<"fin", n>>
PosInf == <<"inf", 1>>
NegInf == <<"inf", -1>>
NaN == <<"nan", 0>>
FloatError == <<"err", 0>>

\* the numeric strings the model's upstream sends, with their values
NumberText == [x \in {"0", "2"} |-> IF x = "0" THEN 0 ELSE 2]

\* float(text): the parsed value, or FloatError where Python raises ValueError
Float(text) ==
    IF text \in DOMAIN NumberText THEN Fin(NumberText[text])
    ELSE IF text = "Infinity" THEN PosInf
    ELSE IF text = "-Infinity" THEN NegInf
    ELSE IF text = "NaN" THEN NaN
    ELSE FloatError

IsInf(x) == x[1] = "inf"
IsNan(x) == x[1] = "nan"

\* ratio = 9999.0 if math.isinf(ratio) or math.isnan(ratio)
SanitizeInfOnly(ratio) == IF IsInf(ratio) THEN Fin(Sentinel) ELSE ratio
Sanitize(ratio) == IF IsInf(ratio) \/ IsNan(ratio) THEN Fin(Sentinel) ELSE ratio

----------------------------------------------------------------------------
(* Upstream responses.  A response is the outcome of one client.get: exc   *)
(* when the call raises (timeout, connection error), else a status and a   *)
(* body; the body is a JSON array ("list", with its items), a JSON object  *)
(* such as the exchange's {"code": .., "msg": ..} error ("dict"), or text  *)
(* that is no JSON ("nojson").                                             *)

Response(exc, status, shape, items) ==
    [exc |-> exc, status |-> status, shape |-> shape, items |-> items]

Timeout == Response(TRUE, 0, "none", <<>>)
OkList(items) == Response(FALSE, 200, "list", items)
BadStatus == Response(FALSE, 429, "dict", <<>>)
BadStatusText == Response(FALSE, 502, "nojson", <<>>)
MalformedDict == Response(FALSE, 200, "dict", <<>>)
MalformedText == Response(FALSE, 200, "nojson", <<>>)

\* the taxonomy's failures: timeout, bad status, malformed payload
IsFailure(resp) == resp.exc \/ resp.status # 200 \/ resp.shape # "list"

----------------------------------------------------------------------------
(* fetch_single: what one symbol's response adds to the batch result *)

Mul100(x) == IF x[1] = "fin" THEN Fin(x[2] * 100) ELSE x

\* the entry stored for the symbol, as a one-element set; {} when the
\* response is skipped or an exception is swallowed
SingleEntryNoStatus(resp) ==
    IF resp.exc \/ resp.shape # "list" \/ Len(resp.items) = 0
    THEN {}
    ELSE LET item == resp.items[1]
         IN  {[ratio |-> Float(Get(item, "longShortRatio", "0")),
               long |-> Mul100(Float(Get(item, "longAccount", "0"))),
               short |-> Mul100(Float(Get(item, "shortAccount", "0")))]}
SingleEntryRaw(resp) ==
    IF resp.exc \/ resp.status # 200 \/ resp.shape # "list" \/ Len(resp.items) = 0
    THEN {}
    ELSE LET item == resp.items[1]
             ratio == Float(Get(item, "longShortRatio", "0"))
             long_acc == Float(Get(item, "longAccount", "0"))
             short_acc == Float(Get(item, "shortAccount", "0"))
         IN  IF FloatError \in {ratio, long_acc, short_acc} THEN {}
             ELSE {[ratio |-> ratio,
                    long |-> Mul100(long_acc),
                    short |-> Mul100(short_acc)]}

SingleEntry(resp) ==
    {[e EXCEPT !.ratio = Sanitize(e.ratio)] : e \in SingleEntryRaw(resp)}

LsItem(ratio) == [longShortRatio |-> ratio, longAccount |-> "2", shortAccount |-> "0"]

\* the responses the long/short endpoint gives in the model
LsResponses ==
    {Timeout, BadStatus, MalformedDict, MalformedText, OkList(<<>>),
     Response(FALSE, 429, "list", <<LsItem("2")>>),
     OkList(<<[longAccount |-> "2", shortAccount |-> "0"]>>)}
    \cup {OkList(<<LsItem(r)>>) : r \in {"2", "Infinity", "-Infinity", "NaN", "abc"}}

----------------------------------------------------------------------------
(* The join of one refresh cycle (fetch_binance_tickers, lines 99-177) *)

Ticker(sym, vol, chg) ==
    [symbol |-> sym, quoteVolume |-> vol, priceChangePercent |-> chg]

Funding(sym, rate, nft) ==
    [symbol |-> sym, lastFundingRate |-> rate, nextFundingTime |-> nft]

\* a daily candle; the code reads element [7], the quote volume
Candle(qv) == <<0, 0, 0, 0, 0, 0, 0, qv>>

\* a response whose .json() raises, or whose use raises further on: a
\* ticker payload that is an object is iterated by key, and key.get raises
CycleRaises(got) ==
    \/ \E r \in Resources : got[r].shape = "nojson"
    \/ got["ticker"].shape # "list"

\* lines 105-110; the quotient is exact for the volumes of the model
VolChange(klines) ==
    IF klines.shape = "list" /\ Len(klines.items) >= 2
    THEN LET y_vol == klines.items[1][8]
             t_vol == klines.items[2][8]
         IN  IF y_vol > 0 THEN ((t_vol - y_vol) * 100) \div y_vol ELSE 0
    ELSE 0

\* line 112: a dict comprehension, the last record of a symbol wins; the
\* keys of an error object hold no "symbol", so it yields the empty map
RECURSIVE MapOfItems(_, _)
MapOfItems(items, acc) ==
    IF items = <<>> THEN acc
    ELSE MapOfItems(Tail(items),
                    IF "symbol" \in DOMAIN Head(items)
                    THEN Put(acc, Head(items).symbol, Head(items))
                    ELSE acc)

FundingMap(funding) ==
    IF funding.shape = "list" THEN MapOfItems(funding.items, EmptyDict) ELSE EmptyDict

\* lines 114-116
RECURSIVE IntervalOfItems(_, _)
IntervalOfItems(items, acc) ==
    IF items = <<>> THEN acc
    ELSE IntervalOfItems(Tail(items),
                         Put(acc, Get(Head(items), "symbol", <<>>),
                             Get(Head(items), "fundingIntervalHours", DefaultInterval)))

IntervalMap(info) ==
    IF info.shape = "list" THEN IntervalOfItems(info.items, EmptyDict) ELSE EmptyDict

\* line 124
LiquidAtFloor(t) ==
    /\ EndsWithUSDT(Get(t, "symbol", <<>>))
    /\ Get(t, "quoteVolume", 0) >= LiquidityFloor
Liquid(t) ==
    /\ EndsWithUSDT(Get(t, "symbol", <<>>))
    /\ Get(t, "quoteVolume", 0) > LiquidityFloor

\* lines 125-126
ActiveAlways(t, funding_map) == TRUE
Active(t, funding_map) ==
    Get(Get(funding_map, Get(t, "symbol", <<>>), EmptyDict), "nextFundingTime", 0) > 0

\* lines 127-129
RateOf(t, funding_map) ==
    Get(Get(funding_map, Get(t, "symbol", <<>>), EmptyDict), "lastFundingRate", 0)

IsOtherNonPositive(t, funding_map) == RateOf(t, funding_map) <= 0
IsOther(t, funding_map) == RateOf(t, funding_map) = 0

\* lines 120-132: the tickers kept for want = "main" or "other", in
\* upstream order
RECURSIVE Pairs(_, _, _)
Pairs(data, funding_map, want) ==
    IF data = <<>> THEN <<>>
    ELSE LET t == Head(data)
             rest == Pairs(Tail(data), funding_map, want)
         IN  IF Liquid(t) /\ Active(t, funding_map)
                /\ (IsOther(t, funding_map) <=> want = "other")
             THEN <<t>> \o rest
             ELSE rest

\* list.sort(key = priceChangePercent, reverse = True): stable, so an
\* element goes behind every element whose key is not smaller
RECURSIVE InsertDescBeforeEqual(_, _)
InsertDescBeforeEqual(sorted, t) ==
    IF sorted = <<>> THEN <<t>>
    ELSE IF Get(Head(sorted), "priceChangePercent", 0) > Get(t, "priceChangePercent", 0)
         THEN <<Head(sorted)>> \o InsertDescBeforeEqual(Tail(sorted), t)
         ELSE <<t>> \o sorted

RECURSIVE InsertDesc(_, _)
InsertDesc(sorted, t) ==
    IF sorted = <<>> THEN <<t>>
    ELSE IF Get(Head(sorted), "priceChangePercent", 0) >= Get(t, "priceChangePercent", 0)
         THEN <<Head(sorted)>> \o InsertDesc(Tail(sorted), t)
         ELSE <<t>> \o sorted

RECURSIVE SortFrom(_, _)
SortFrom(items, sorted) ==
    IF items = <<>> THEN sorted
    ELSE SortFrom(Tail(items), InsertDesc(sorted, Head(items)))

SortDesc(items) == SortFrom(items, <<>>)

LsDefaultOne == [ratio |-> Fin(1), long |-> Fin(0), short |-> Fin(0)]
LsDefault == [ratio |-> Fin(0), long |-> Fin(0), short |-> Fin(0)]

\* lines 143-164
MapResult(items, funding_map, interval_map, ls_ratios) ==
    [i \in 1..Len(items) |->
        LET t == items[i]
            sym == Get(t, "symbol", <<>>)
            f_info == Get(funding_map, sym, EmptyDict)
        IN  [rank |-> i,
             symbol |-> DisplaySymbol(sym),
             change24h |-> Get(t, "priceChangePercent", 0),
             volume24h |-> Get(t, "quoteVolume", 0),
             fundingRate |-> Get(f_info, "lastFundingRate", 0),
             nextFundingTime |-> Get(f_info, "nextFundingTime", 0),
             fundingInterval |-> Get(interval_map, sym, DefaultInterval),
             lsRatio |-> Get(ls_ratios, sym, LsDefault)]]

RECURSIVE SumVolume(_)
SumVolume(items) ==
    IF items = <<>> THEN 0
    ELSE Get(Head(items), "quoteVolume", 0) + SumVolume(Tail(items))

\* lines 134-140
Top100(got) == SortDesc(Pairs(got["ticker"].items, FundingMap(got["funding"]), "main"))
OtherTop100(got) == SortDesc(Pairs(got["ticker"].items, FundingMap(got["funding"]), "other"))

RECURSIVE SymbolsOf(_)
SymbolsOf(items) ==
    IF items = <<>> THEN <<>> ELSE <<Head(items).symbol>> \o SymbolsOf(Tail(items))

FetchSymbols(got) == SymbolsOf(Top100(got) \o OtherTop100(got))

\* lines 150-155, after the batch: float(t.get("lastPrice", 0)) and the
\* like raise on a field of a listed ticker that is no number
MapRaises(got) ==
    LET items == Top100(got) \o OtherTop100(got)
    IN  \E i \in 1..Len(items) : Float(Get(items[i], "lastPrice", "0")) = FloatError

\* lines 166-177
FinalDataMainVolume(got, ls_ratios, now_) ==
    LET funding_map == FundingMap(got["funding"])
        interval_map == IntervalMap(got["info"])
    IN  [data |-> MapResult(Top100(got), funding_map, interval_map, ls_ratios),
         other |-> MapResult(OtherTop100(got), funding_map, interval_map, ls_ratios),
         total_volume |-> SumVolume(Top100(got)),
         volume_change |-> VolChange(got["klines"]),
         ts |-> now_]
FinalData(got, ls_ratios, now_) ==
    LET funding_map == FundingMap(got["funding"])
        interval_map == IntervalMap(got["info"])
    IN  [data |-> MapResult(Top100(got), funding_map, interval_map, ls_ratios),
         other |-> MapResult(OtherTop100(got), funding_map, interval_map, ls_ratios),
         total_volume |-> SumVolume(Top100(got) \o OtherTop100(got)),
         volume_change |-> VolChange(got["klines"]),
         ts |-> now_]

----------------------------------------------------------------------------
(* The state *)

Tasks == {1, 2}

VARIABLES
    now,        \* time.time()
    cache,      \* _cache: key -> entry
    pc,         \* per request: "idle", "gather", "batch", "done"
    entry,      \* per request: the function it calls, "tickers" or "ls"
    tnow,       \* fetch_binance_tickers: the local now (line 83)
    got,        \* fetch_binance_tickers: the responses gathered so far
    sent,       \* requests issued per snapshot resource by this call
    symbols,    \* fetch_ls_ratio_batch: the argument
    bnow,       \* fetch_ls_ratio_batch: the local now (line 42)
    queued,     \* fetch_single tasks waiting for the semaphore, per symbol
    inflight,   \* fetch_single tasks holding the semaphore, per symbol
    sem,        \* the semaphore's value
    result,     \* fetch_ls_ratio_batch: the local result dict
    good,       \* symbols some request of which was answered well-formed
    bad,        \* symbols some request of which failed
    lsreq,      \* per-symbol requests issued by this call
    lspath,     \* how the batch returned: "none", "hit", "fetched"
    lsret,      \* the map fetch_ls_ratio_batch returned
    ret,        \* the value returned by the called function
    path        \* how the call returned: "none", "hit", "stored", "fallback"

cycleVars == <<tnow, got, sent>>
batchVars == <<symbols, bnow, queued, inflight, sem, result, good, bad, lsreq, lspath,
               lsret>>
retVars == <<ret, path>>
vars == <<now, cache, pc, entry, cycleVars, batchVars, retVars>>

Pending == Response(FALSE, 0, "pending", <<>>)

NoBag == [s \in Symbols |-> 0]

\* the symbols of a list, counted
BagOf(syms) == [s \in Symbols |-> Cardinality({i \in 1..Len(syms) : syms[i] = s})]

BagSize(b) == b[BTCUSDT] + b[ETHUSDT] + b[ETHBTC]

InitWith(entries) ==
    /\ now = 0
    /\ cache = EmptyDict
    /\ pc = [t \in Tasks |-> "idle"]
    /\ entry = entries
    /\ tnow = [t \in Tasks |-> 0]
    /\ got = [t \in Tasks |-> [r \in Resources |-> Pending]]
    /\ sent = [t \in Tasks |-> [r \in Resources |-> 0]]
    /\ symbols = [t \in Tasks |-> <<>>]
    /\ bnow = [t \in Tasks |-> 0]
    /\ queued = [t \in Tasks |-> NoBag]
    /\ inflight = [t \in Tasks |-> NoBag]
    /\ sem = [t \in Tasks |-> 0]
    /\ result = [t \in Tasks |-> EmptyDict]
    /\ good = [t \in Tasks |-> {}]
    /\ bad = [t \in Tasks |-> {}]
    /\ lsreq = [t \in Tasks |-> 0]
    /\ lspath = [t \in Tasks |-> "none"]
    /\ lsret = [t \in Tasks |-> EmptyDict]
    /\ ret = [t \in Tasks |-> EmptyDict]
    /\ path = [t \in Tasks |-> "none"]

----------------------------------------------------------------------------
(* The cache checks and the returns *)

\* cache_key in _cache and now - _cache[cache_key]["ts"] < ttl
FreshInclusive(c, key, now_, ttl) == key \in DOMAIN c /\ now_ - c[key].ts <= ttl
Fresh(c, key, now_, ttl) == key \in DOMAIN c /\ now_ - c[key].ts < ttl

\* line 182: _cache.get(cache_key, {"data": [], "other": []})
FallbackEmpty(c) == EmptyDict
Fallback(c) == Get(c, SNAP_KEY, [data |-> <<>>, other |-> <<>>])

\* lines 225-232
ApiNoDefaults(data_dict, now_) ==
    [d \in DOMAIN data_dict \cup {"exchange", "ts"} |->
        IF d = "exchange" THEN "Binance"
        ELSE IF d = "ts" THEN now_ * 1000 ELSE data_dict[d]]
ApiBinanceTickers(data_dict, now_) ==
    [exchange |-> "Binance",
     data |-> Get(data_dict, "data", <<>>),
     other |-> Get(data_dict, "other", <<>>),
     total_volume |-> Get(data_dict, "total_volume", 0),
     volume_change |-> Get(data_dict, "volume_change", 0),
     ts |-> now_ * 1000]

\* fetch_binance_tickers returns value by way p
Return(t, value, p) ==
    /\ pc' = [pc EXCEPT ![t] = "done"]
    /\ ret' = [ret EXCEPT ![t] = value]
    /\ path' = [path EXCEPT ![t] = p]

\* lines 171-179, after a batch that left the cache as c and returned ls
StoreInPlace(t, c, ls) ==
    LET final_data == FinalData(got[t], ls, tnow[t])
    IN  /\ cache' = IF SNAP_KEY \in DOMAIN c
                    THEN Put(c, SNAP_KEY, [c[SNAP_KEY] EXCEPT !.data = final_data.data,
                                                              !.ts = final_data.ts])
                    ELSE Put(c, SNAP_KEY, final_data)
        /\ Return(t, final_data, "stored")
Store(t, c, ls) ==
    LET final_data == FinalData(got[t], ls, tnow[t])
    IN  /\ cache' = Put(c, SNAP_KEY, final_data)
        /\ Return(t, final_data, "stored")

\* lines 180-182
ExceptDropsExpired(t) ==
    LET c == IF Fresh(cache, SNAP_KEY, now, CacheTTL)
             THEN cache
             ELSE [k \in DOMAIN cache \ {SNAP_KEY} |-> cache[k]]
    IN  /\ cache' = c
        /\ Return(t, Fallback(c), "fallback")
Except(t) ==
    /\ cache' = cache
    /\ Return(t, Fallback(cache), "fallback")

\* lines 143-182, after a batch that left the cache as c and returned ls:
\* the rows are built and the snapshot stored, or building them raises
Finish(t, c, ls) ==
    IF MapRaises(got[t])
    THEN /\ cache' = c
         /\ Return(t, Fallback(c), "fallback")
    ELSE Store(t, c, ls)

----------------------------------------------------------------------------
(* fetch_binance_tickers *)

\* lines 82-98: the cache check, then the four requests are issued
Call(t) ==
    /\ pc[t] = "idle" /\ entry[t] = "tickers"
    /\ tnow' = [tnow EXCEPT ![t] = now]
    /\ IF Fresh(cache, SNAP_KEY, now, CacheTTL)
       THEN /\ Return(t, cache[SNAP_KEY], "hit")
            /\ UNCHANGED sent
       ELSE /\ pc' = [pc EXCEPT ![t] = "gather"]
            /\ sent' = [sent EXCEPT ![t] = [r \in Resources |-> sent[t][r] + 1]]
            /\ UNCHANGED retVars
    /\ UNCHANGED <<now, cache, entry, got, batchVars>>

\* one of the four responses arrives; an exception ends the gather at once
Deliver(t, r, resp) ==
    /\ pc[t] = "gather" /\ got[t][r] = Pending
    /\ got' = [got EXCEPT ![t][r] = resp]
    /\ IF resp.exc THEN Except(t) ELSE UNCHANGED <<cache, pc, retVars>>
    /\ UNCHANGED <<now, entry, tnow, sent, batchVars>>

\* lines 40-49 as called from line 141: the batch's own cache check
StartBatch(t, syms) ==
    /\ symbols' = [symbols EXCEPT ![t] = syms]
    /\ bnow' = [bnow EXCEPT ![t] = now]
    /\ queued' = [queued EXCEPT ![t] = BagOf(syms)]
    /\ sem' = [sem EXCEPT ![t] = SemLimit]
    /\ result' = [result EXCEPT ![t] = EmptyDict]
    /\ pc' = [pc EXCEPT ![t] = "batch"]
    /\ UNCHANGED <<cache, inflight, good, bad, lsreq, lspath, lsret, retVars>>

\* lines 99-141: the gather is complete; parse, filter, sort, call the batch
Join(t) ==
    /\ pc[t] = "gather"
    /\ \A r \in Resources : got[t][r] # Pending
    /\ IF CycleRaises(got[t])
       THEN Except(t) /\ UNCHANGED batchVars
       ELSE IF Fresh(cache, LS_KEY, now, LsTTL)
            THEN /\ Finish(t, cache, cache[LS_KEY].data)
                 /\ symbols' = [symbols EXCEPT ![t] = FetchSymbols(got[t])]
                 /\ bnow' = [bnow EXCEPT ![t] = now]
                 /\ lspath' = [lspath EXCEPT ![t] = "hit"]
                 /\ lsret' = [lsret EXCEPT ![t] = cache[LS_KEY].data]
                 /\ UNCHANGED <<queued, inflight, sem, result, good, bad, lsreq>>
            ELSE StartBatch(t, FetchSymbols(got[t]))
    /\ UNCHANGED <<now, entry, cycleVars>>

----------------------------------------------------------------------------
(* fetch_ls_ratio_batch *)

\* lines 40-45 and 68-70, called on its own
LsCall(t, syms) ==
    /\ pc[t] = "idle" /\ entry[t] = "ls"
    /\ IF Fresh(cache, LS_KEY, now, LsTTL)
       THEN /\ pc' = [pc EXCEPT ![t] = "done"]
            /\ ret' = [ret EXCEPT ![t] = cache[LS_KEY].data]
            /\ path' = [path EXCEPT ![t] = "hit"]
            /\ symbols' = [symbols EXCEPT ![t] = syms]
            /\ bnow' = [bnow EXCEPT ![t] = now]
            /\ lspath' = [lspath EXCEPT ![t] = "hit"]
            /\ lsret' = [lsret EXCEPT ![t] = cache[LS_KEY].data]
            /\ UNCHANGED <<cache, queued, inflight, sem, result, good, bad, lsreq>>
       ELSE StartBatch(t, syms)
    /\ UNCHANGED <<now, entry, cycleVars>>

\* line 52: async with sem
SemFreeAlways(v) == TRUE
SemFree(v) == v > 0

\* lines 52-54: a waiting fetch_single takes a slot and issues its request
Acquire(t, s) ==
    /\ pc[t] = "batch" /\ queued[t][s] > 0
    /\ SemFree(sem[t])
    /\ sem' = [sem EXCEPT ![t] = sem[t] - 1]
    /\ queued' = [queued EXCEPT ![t][s] = queued[t][s] - 1]
    /\ inflight' = [inflight EXCEPT ![t][s] = inflight[t][s] + 1]
    /\ lsreq' = [lsreq EXCEPT ![t] = lsreq[t] + 1]
    /\ UNCHANGED <<now, cache, pc, entry, cycleVars, symbols, bnow, result, good, bad,
                   lspath, lsret, retVars>>

\* lines 55-66: the response of one symbol; the slot is released
ResultAfter(res, s, resp) ==
    IF SingleEntry(resp) = {} THEN res
    ELSE Put(res, s, CHOOSE e \in SingleEntry(resp) : TRUE)

\* a failure of the request: non-200 status, malformed or empty payload,
\* or a raised exception
LsFailure(resp) ==
    \/ IsFailure(resp)
    \/ Len(resp.items) = 0
    \/ \E k \in DOMAIN resp.items[1] : Float(resp.items[1][k]) = FloatError

CompleteRetries(t, s, resp) ==
    /\ pc[t] = "batch" /\ inflight[t][s] > 0
    /\ result' = [result EXCEPT ![t] = ResultAfter(result[t], s, resp)]
    /\ good' = [good EXCEPT ![t] = IF LsFailure(resp) THEN good[t] ELSE good[t] \cup {s}]
    /\ bad' = [bad EXCEPT ![t] = IF LsFailure(resp) THEN bad[t] \cup {s} ELSE bad[t]]
    /\ inflight' = [inflight EXCEPT ![t][s] = inflight[t][s] - 1]
    /\ queued' = [queued EXCEPT ![t][s] = IF resp.exc THEN queued[t][s] + 1 ELSE queued[t][s]]
    /\ sem' = [sem EXCEPT ![t] = sem[t] + 1]
    /\ UNCHANGED <<now, cache, pc, entry, cycleVars, symbols, bnow, lsreq,
                   lspath, lsret, retVars>>
CompleteLeaks(t, s, resp) ==
    /\ pc[t] = "batch" /\ inflight[t][s] > 0
    /\ result' = [result EXCEPT ![t] = ResultAfter(result[t], s, resp)]
    /\ good' = [good EXCEPT ![t] = IF LsFailure(resp) THEN good[t] ELSE good[t] \cup {s}]
    /\ bad' = [bad EXCEPT ![t] = IF LsFailure(resp) THEN bad[t] \cup {s} ELSE bad[t]]
    /\ inflight' = [inflight EXCEPT ![t][s] = inflight[t][s] - 1]
    /\ sem' = [sem EXCEPT ![t] = IF resp.exc THEN sem[t] ELSE sem[t] + 1]
    /\ UNCHANGED <<now, cache, pc, entry, cycleVars, symbols, bnow, queued, lsreq,
                   lspath, lsret, retVars>>
Complete(t, s, resp) ==
    /\ pc[t] = "batch" /\ inflight[t][s] > 0
    /\ result' = [result EXCEPT ![t] = ResultAfter(result[t], s, resp)]
    /\ good' = [good EXCEPT ![t] = IF LsFailure(resp) THEN good[t] ELSE good[t] \cup {s}]
    /\ bad' = [bad EXCEPT ![t] = IF LsFailure(resp) THEN bad[t] \cup {s} ELSE bad[t]]
    /\ inflight' = [inflight EXCEPT ![t][s] = inflight[t][s] - 1]
    /\ sem' = [sem EXCEPT ![t] = sem[t] + 1]
    /\ UNCHANGED <<now, cache, pc, entry, cycleVars, symbols, bnow, queued, lsreq,
                   lspath, lsret, retVars>>

\* lines 71-74: the gather is complete; a non-empty result is cached, and
\* the caller (line 141 on, or the request itself) goes on
BatchDone(t) ==
    /\ pc[t] = "batch"
    /\ BagSize(queued[t]) = 0 /\ BagSize(inflight[t]) = 0
    /\ lspath' = [lspath EXCEPT ![t] = "fetched"]
    /\ lsret' = [lsret EXCEPT ![t] = result[t]]
    /\ LET c == IF result[t] # EmptyDict
                THEN Put(cache, LS_KEY, [data |-> result[t], ts |-> bnow[t]])
                ELSE cache
       IN  IF entry[t] = "tickers"
           THEN Finish(t, c, result[t])
           ELSE /\ cache' = c
                /\ pc' = [pc EXCEPT ![t] = "done"]
                /\ ret' = [ret EXCEPT ![t] = result[t]]
                /\ path' = [path EXCEPT ![t] = "fetched"]
    /\ UNCHANGED <<now, entry, cycleVars, symbols, bnow, queued, inflight, sem, result,
                   good, bad, lsreq>>

\* the wall clock advances
Tick(d, last) ==
    /\ now + d <= last
    /\ now' = now + d
    /\ UNCHANGED <<cache, pc, entry, cycleVars, batchVars, retVars>>

----------------------------------------------------------------------------
(* Spec: two requests for the snapshot, the clock, and an upstream that    *)
(* answers each request in one of a few ways.                              *)

FundingData == <<Funding(BTCUSDT, 1, 100), Funding(ETHUSDT, 0, 200)>>
InfoData == <<[symbol |-> BTCUSDT, fundingIntervalHours |-> 4]>>

MainResponses(r) ==
    {Timeout} \cup
    CASE r = "ticker" ->
            {OkList(<<Ticker(BTCUSDT, 2000000, 5), Ticker(ETHUSDT, 500000, 3)>>),
             OkList(<<Ticker(ETHUSDT, 3000000, 3), Ticker(BTCUSDT, 1000000, 5)>>)}
      [] r = "funding" -> {OkList(FundingData), BadStatus}
      [] r = "info" -> {OkList(InfoData)}
      [] r = "klines" -> {OkList(<<Candle(100), Candle(150)>>), BadStatusText}

MainLsResponses == {Timeout, OkList(<<LsItem("2")>>)}

Init == InitWith([t \in Tasks |-> "tickers"])

Next ==
    \/ \E t \in Tasks : Call(t)
    \/ \E t \in Tasks, r \in Resources : \E resp \in MainResponses(r) : Deliver(t, r, resp)
    \/ \E t \in Tasks : Join(t)
    \/ \E t \in Tasks, s \in Symbols : Acquire(t, s)
    \/ \E t \in Tasks, s \in Symbols : \E resp \in MainLsResponses : Complete(t, s, resp)
    \/ \E t \in Tasks : BatchDone(t)
    \/ Tick(TickStep, MaxTime)

Spec == Init /\ [][Next]_vars

----------------------------------------------------------------------------
(* SpecJoin: one refresh cycle whose four responses have arrived, over     *)
(* every ticker list up to MaxTickers and every funding index of the sets  *)
(* below; the long/short batch is answered by its cache.                   *)

SeqsUpTo(S, n) == UNION {[1..k -> S] : k \in 0..n}

TickerChoices ==
    {Ticker(s, v, c) : s \in {BTCUSDT, ETHUSDT},
                       v \in {LiquidityFloor, LiquidityFloor + 1},
                       c \in {-1, 5}}
    \cup {Ticker(ETHBTC, LiquidityFloor + 1, 5)}

\* no record, an inactive record, or an active one with some rate
FundingOptions(s) ==
    {<<>>} \cup {<<Funding(s, f[1], f[2])>> :
                    f \in {<<1, 0>>, <<0, -1>>, <<0, 100>>, <<1, 100>>, <<-2, 100>>}}

FundingChoices ==
    {a \o b \o <<Funding(ETHBTC, 1, 100)>> :
        a \in FundingOptions(BTCUSDT), b \in FundingOptions(ETHUSDT)}

JoinResponses(r) ==
    CASE r = "ticker" -> {OkList(l) : l \in SeqsUpTo(TickerChoices, MaxTickers)}
                         \cup {BadStatus}
      [] r = "funding" -> {OkList(l) : l \in FundingChoices} \cup {BadStatus}
      [] r = "info" -> {OkList(InfoData), MalformedDict}
      [] r = "klines" -> {OkList(<<Candle(100), Candle(150)>>),
                          OkList(<<Candle(0), Candle(150)>>)}

LsCached == [data |-> [s \in {BTCUSDT} |-> [ratio |-> Fin(2), long |-> Fin(200),
                                             short |-> Fin(0)]],
             ts |-> 0]

InitJoin ==
    /\ now = 0
    /\ cache = Put(EmptyDict, LS_KEY, LsCached)
    /\ pc = [t \in Tasks |-> IF t = 1 THEN "gather" ELSE "idle"]
    /\ entry = [t \in Tasks |-> "tickers"]
    /\ tnow = [t \in Tasks |-> 0]
    /\ \E tk \in JoinResponses("ticker"), fd \in JoinResponses("funding"),
          inf \in JoinResponses("info"), kl \in JoinResponses("klines") :
          got = [t \in Tasks |->
                    IF t = 1
                    THEN [r \in Resources |->
                            CASE r = "ticker" -> tk [] r = "funding" -> fd
                              [] r = "info" -> inf [] r = "klines" -> kl]
                    ELSE [r \in Resources |-> Pending]]
    /\ sent = [t \in Tasks |-> [r \in Resources |-> IF t = 1 THEN 1 ELSE 0]]
    /\ symbols = [t \in Tasks |-> <<>>]
    /\ bnow = [t \in Tasks |-> 0]
    /\ queued = [t \in Tasks |-> NoBag]
    /\ inflight = [t \in Tasks |-> NoBag]
    /\ sem = [t \in Tasks |-> 0]
    /\ result = [t \in Tasks |-> EmptyDict]
    /\ good = [t \in Tasks |-> {}]
    /\ bad = [t \in Tasks |-> {}]
    /\ lsreq = [t \in Tasks |-> 0]
    /\ lspath = [t \in Tasks |-> "none"]
    /\ lsret = [t \in Tasks |-> EmptyDict]
    /\ ret = [t \in Tasks |-> EmptyDict]
    /\ path = [t \in Tasks |-> "none"]

NextJoin == Join(1)

SpecJoin == InitJoin /\ [][NextJoin]_vars

----------------------------------------------------------------------------
(* Claims about the join *)

\* the rows of a stored snapshot, main and other together
Rows(snap) == {snap.data[i] : i \in 1..Len(snap.data)}
              \cup {snap.other[i] : i \in 1..Len(snap.other)}

\* the rows that show ticker t
RowsOf(rows, t) ==
    {i \in 1..Len(rows) : /\ rows[i].symbol = DisplaySymbol(t.symbol)
                          /\ rows[i].volume24h = t.quoteVolume
                          /\ rows[i].change24h = t.priceChangePercent}

Shown(snap, t) == RowsOf(snap.data, t) # {} \/ RowsOf(snap.other, t) # {}

Stored(t) == path[t] = "stored"

TickerItems(t) == got[t]["ticker"].items

\* the funding records of symbol s in the funding index response
FundingRecords(t, s) ==
    IF got[t]["funding"].shape = "list"
    THEN {f \in {got[t]["funding"].items[i] : i \in 1..Len(got[t]["funding"].items)} :
            f.symbol = s}
    ELSE {}

\* C8: in a snapshot produced by a refresh cycle no ticker whose quote
\* volume is at most 1,000,000, and no ticker whose symbol does not end in
\* USDT, is shown in main or in other.
C8_LiquidityFilter ==
    \A t \in Tasks : Stored(t) =>
        \A i \in 1..Len(TickerItems(t)) :
            LET tk == TickerItems(t)[i]
            IN  (tk.quoteVolume <= 1000000 \/ tk.symbol[Len(tk.symbol)] # "USDT")
                => ~Shown(ret[t], tk)

C8_Witness ==
    \E t \in Tasks : /\ Stored(t)
                     /\ Len(ret[t].data) > 0
                     /\ \E i \in 1..Len(TickerItems(t)) :
                            /\ TickerItems(t)[i].quoteVolume = 1000000
                            /\ TickerItems(t)[i].symbol = ETHUSDT
                            /\ \E f \in FundingRecords(t, ETHUSDT) : f.nextFundingTime > 0

\* C9: in a snapshot produced by a refresh cycle a symbol whose funding
\* record has nextFundingTime <= 0, or that has no funding record, is in
\* neither main nor other.
C9_ActivityFilter ==
    \A t \in Tasks : Stored(t) =>
        \A s \in Symbols :
            (\A f \in FundingRecords(t, s) : f.nextFundingTime <= 0)
            => \A row \in Rows(ret[t]) : row.symbol # DisplaySymbol(s)

C9_Witness ==
    \E t \in Tasks :
        /\ Stored(t)
        /\ Len(ret[t].data) > 0
        /\ \E i \in 1..Len(TickerItems(t)) :
              LET tk == TickerItems(t)[i]
              IN  /\ tk.symbol = ETHUSDT /\ tk.quoteVolume > 1000000
                  /\ FundingRecords(t, ETHUSDT) # {}
                  /\ \A f \in FundingRecords(t, ETHUSDT) : f.nextFundingTime <= 0

\* the eligible tickers of the claim: suffix, volume and a live funding record
EligibleIndex(t) ==
    {i \in 1..Len(TickerItems(t)) :
        LET tk == TickerItems(t)[i]
        IN  /\ tk.symbol[Len(tk.symbol)] = "USDT"
            /\ tk.quoteVolume > 1000000
            /\ \E f \in FundingRecords(t, tk.symbol) : f.nextFundingTime > 0}

ZeroRate(t, tk) == \E f \in FundingRecords(t, tk.symbol) : f.lastFundingRate = 0

\* C10: main and other partition the eligible tickers: every eligible
\* ticker is shown in exactly one list, in other iff its funding rate is
\* exactly 0 and in main otherwise, and the lists hold nothing else.
C10_Partition ==
    \A t \in Tasks : Stored(t) =>
        /\ Len(ret[t].data) + Len(ret[t].other) = Cardinality(EligibleIndex(t))
        /\ \A i \in EligibleIndex(t) :
            LET tk == TickerItems(t)[i]
                same == {j \in EligibleIndex(t) : TickerItems(t)[j] = tk}
            IN  IF ZeroRate(t, tk)
                THEN /\ Cardinality(RowsOf(ret[t].other, tk)) = Cardinality(same)
                     /\ RowsOf(ret[t].data, tk) = {}
                ELSE /\ Cardinality(RowsOf(ret[t].data, tk)) = Cardinality(same)
                     /\ RowsOf(ret[t].other, tk) = {}

C10_Witness ==
    \E t \in Tasks : /\ Stored(t)
                     /\ Len(ret[t].data) > 0 /\ Len(ret[t].other) > 0
                     /\ \E i \in EligibleIndex(t) :
                           \E f \in FundingRecords(t, TickerItems(t)[i].symbol) :
                               f.lastFundingRate < 0

----------------------------------------------------------------------------
(* SpecBatch: one call of fetch_ls_ratio_batch on a cold cache, for every  *)
(* short symbol list (duplicates included) and for lists longer than the   *)
(* semaphore's capacity, against every response of LsResponses.            *)

BatchSymbols == {BTCUSDT, ETHUSDT}

\* n - 1 requests for one symbol and one for another
LongList(n) == [i \in 1..n |-> IF i < n THEN BTCUSDT ELSE ETHUSDT]

BatchInputs ==
    SeqsUpTo(BatchSymbols, MaxShort)
    \cup {LongList(n) : n \in (SemLimit + 1)..(SemLimit + MaxExtra)}

InitBatch == InitWith([t \in Tasks |-> "ls"])

NextBatch ==
    \/ \E syms \in BatchInputs : LsCall(1, syms)
    \/ \E s \in Symbols : Acquire(1, s)
    \/ \E s \in Symbols : \E resp \in LsResponses : Complete(1, s, resp)
    \/ BatchDone(1)

SpecBatch == InitBatch /\ [][NextBatch]_vars

----------------------------------------------------------------------------
(* Claims about the batch fetcher *)

InFlight(t) == inflight[t][BTCUSDT] + inflight[t][ETHUSDT] + inflight[t][ETHBTC]
Waiting(t) == queued[t][BTCUSDT] + queued[t][ETHUSDT] + queued[t][ETHBTC]

\* C5: during a run of the batch fetcher at most 20 per-symbol requests
\* are in flight, whatever the number of symbols.
C5_AtMost20InFlight == \A t \in Tasks : InFlight(t) <= 20

C5_Witness == \E t \in Tasks : InFlight(t) = 20 /\ Waiting(t) > 0 /\ Len(symbols[t]) > 20

\* C6: a failing request never fails the batch: the batch returns its
\* result map, which holds every symbol a request of which succeeded and
\* no symbol whose requests all failed.
C6_FailureOmitsSymbol ==
    \A t \in Tasks : (pc[t] = "done" /\ lspath[t] = "fetched" /\ entry[t] = "ls") =>
        /\ path[t] = "fetched"
        /\ ret[t] = result[t]
        /\ \A s \in good[t] : s \in DOMAIN ret[t]
        /\ \A s \in bad[t] \ good[t] : s \notin DOMAIN ret[t]
        /\ \A i \in 1..Len(symbols[t]) : symbols[t][i] \in good[t] \cup bad[t]

C6_Witness ==
    \E t \in Tasks : /\ pc[t] = "done" /\ lspath[t] = "fetched" /\ entry[t] = "ls"
                     /\ good[t] # {} /\ bad[t] \ good[t] # {}

\* the ratio a well-formed response carries, as sent
UpstreamRatio(resp) == Get(resp.items[1], "longShortRatio", "0")

\* what the claim says is stored for it
ClaimedRatio(text) ==
    IF text \in {"Infinity", "-Infinity", "NaN"} THEN <<"fin", 9999>>
    ELSE <<"fin", NumberText[text]>>

FiniteRatios(ls) == \A s \in DOMAIN ls : ls[s].ratio[1] = "fin"

\* C7: no ratio in a batch result or in the cache is infinite or NaN
NoNonFiniteStored ==
    /\ \A t \in Tasks : FiniteRatios(result[t])
    /\ LS_KEY \in DOMAIN cache => FiniteRatios(cache[LS_KEY].data)

\* C7: a response with ratio +Infinity, -Infinity or NaN stores exactly
\* 9999.0 for its symbol, and a finite ratio is stored unchanged
StoredAsClaimed ==
    \A t \in Tasks, s \in Symbols : \A resp \in LsResponses :
        (Complete(t, s, resp) /\ ~LsFailure(resp))
        => /\ s \in DOMAIN result'[t]
           /\ result'[t][s].ratio = ClaimedRatio(UpstreamRatio(resp))

\* C7: no long/short ratio stored in the batch result or in the cache is
\* ever infinite or NaN: +Infinity, -Infinity and NaN are stored as exactly
\* 9999.0, a finite ratio is stored unchanged.
C7_SentinelReplacement == [](NoNonFiniteStored) /\ [][StoredAsClaimed]_vars

C7_Witness ==
    /\ LS_KEY \in DOMAIN cache
    /\ \E s \in DOMAIN cache[LS_KEY].data : cache[LS_KEY].data[s].ratio = <<"fin", 9999>>
    /\ \E s \in DOMAIN cache[LS_KEY].data : cache[LS_KEY].data[s].ratio = <<"fin", 2>>

----------------------------------------------------------------------------
(* Claims about the snapshot cache *)

HasSnapshot == "binance_tickers_100" \in DOMAIN cache
Snapshot == cache["binance_tickers_100"]

\* request t enters fetch_binance_tickers in this step
Calls(t) == pc[t] = "idle" /\ pc'[t] # "idle" /\ entry[t] = "tickers"

IssuesNothing(t) == sent'[t] = sent[t] /\ lsreq'[t] = lsreq[t]

IssuesFour(t) == \A r \in Resources : sent'[t][r] = sent[t][r] + 1

\* a call made less than 10s after the cached snapshot's timestamp issues
\* no upstream request and returns the cached snapshot; a call made 10s or
\* more after it issues the four requests anew
TTLRespected ==
    \A t \in Tasks : (Calls(t) /\ HasSnapshot) =>
        IF now - Snapshot.ts < 10
        THEN /\ IssuesNothing(t)
             /\ pc'[t] = "done"
             /\ ret'[t] = Snapshot
             /\ cache' = cache
        ELSE IssuesFour(t) /\ pc'[t] = "gather"

\* C1: after a refresh has stored a snapshot, every call made while
\* now - storedAt < 10s issues zero upstream requests and returns the
\* cached snapshot; the first call made once now - storedAt >= 10s issues
\* new upstream requests.
C1_TTLRespected == [][TTLRespected]_vars

C1_Witness ==
    \E t \in Tasks : /\ path[t] = "hit"
                     /\ HasSnapshot /\ ret[t] = Snapshot
                     /\ tnow[t] - Snapshot.ts = 5
                     /\ \A r \in Resources : sent[t][r] = 0

\* the other half of C1's case: a call made after the TTL is fetching anew
C1_WitnessExpired ==
    \E t \in Tasks : /\ pc[t] = "gather"
                     /\ HasSnapshot /\ tnow[t] - Snapshot.ts = 10
                     /\ \A r \in Resources : sent[t][r] = 1

\* an upstream call of request t's cycle throws in this step
Throws(t) == \E r \in Resources : Deliver(t, r, Timeout)

FallsBack(t) ==
    /\ pc'[t] = "done"
    /\ ret'[t] = Snapshot
    /\ cache' = cache

\* C2: if an upstream call of a refresh cycle throws and a snapshot was
\* cached before, the cycle returns exactly that snapshot and leaves the
\* cache entry unchanged.
C2_FallbackOnThrow ==
    [][\A t \in Tasks : (Throws(t) /\ HasSnapshot) => FallsBack(t)]_vars

C2_Witness ==
    \E t \in Tasks : /\ path[t] = "fallback"
                     /\ \E r \in Resources : got[t][r].exc
                     /\ HasSnapshot /\ ret[t] = Snapshot
                     /\ Len(ret[t].data) > 0

\* request t's cycle ends in this step
Ends(t) == pc[t] \in {"gather", "batch"} /\ pc'[t] = "done" /\ entry[t] = "tickers"

\* some response of the cycle is a timeout, a non-200 status or a
\* malformed payload
SomeFailure(t) == \E r \in Resources : got'[t][r] # Pending /\ IsFailure(got'[t][r])

StoresNothing ==
    /\ ("binance_tickers_100" \in DOMAIN cache') = HasSnapshot
    /\ HasSnapshot => cache'["binance_tickers_100"] = Snapshot

\* C3: if any of the four fetches of a cycle fails (timeout, bad status,
\* malformed payload) the cycle stores no new snapshot and returns the
\* previously cached one.
C3_AnyFailureFallsBack ==
    [][\A t \in Tasks : (Ends(t) /\ SomeFailure(t)) =>
            /\ StoresNothing
            /\ HasSnapshot => ret'[t] = Snapshot]_vars

\* the content api_binance_tickers answers with for request t
ApiContent(t) == ApiBinanceTickers(ret[t], now)

\* C4: when a cycle fails on a cold cache the value returned is a complete
\* empty default: empty main list, empty other list, total volume 0 and
\* volume change 0.
C4_ColdDefault ==
    \A t \in Tasks : (path[t] = "fallback" /\ ~HasSnapshot) =>
        /\ {"data", "other", "total_volume", "volume_change"} \subseteq DOMAIN ApiContent(t)
        /\ ApiContent(t).data = <<>>
        /\ ApiContent(t).other = <<>>
        /\ ApiContent(t).total_volume = 0
        /\ ApiContent(t).volume_change = 0

C4_Witness ==
    \E t \in Tasks : /\ path[t] = "fallback" /\ ~HasSnapshot
                     /\ ret[t] = [data |-> <<>>, other |-> <<>>]

----------------------------------------------------------------------------
(* Claims about the order, the ranks and the total volume *)

NonIncreasing(rows) ==
    \A i \in 1..(Len(rows) - 1) : rows[i].change24h >= rows[i + 1].change24h

\* what identifies a ticker in a row
RowKey(row) == <<row.symbol, row.volume24h>>
TickerKey(tk) == <<DisplaySymbol(tk.symbol), tk.quoteVolume>>

KeysOf(rows) == [i \in 1..Len(rows) |-> RowKey(rows[i])]

\* the eligible tickers of request t's cycle with 24h change c that belong
\* to main (zero = FALSE) or to other (zero = TRUE), in upstream order
RECURSIVE UpstreamKeys(_, _, _, _)
UpstreamKeys(t, i, c, zero) ==
    IF i > Len(TickerItems(t)) THEN <<>>
    ELSE (IF /\ i \in EligibleIndex(t)
             /\ TickerItems(t)[i].priceChangePercent = c
             /\ ZeroRate(t, TickerItems(t)[i]) = zero
          THEN <<TickerKey(TickerItems(t)[i])>>
          ELSE <<>>)
         \o UpstreamKeys(t, i + 1, c, zero)

\* the rows of one list with 24h change c, as they stand
RowsWithChange(rows, c) ==
    LET Same(row) == row.change24h = c
    IN  KeysOf(SelectSeq(rows, Same))

Changes(t) == {TickerItems(t)[i].priceChangePercent : i \in 1..Len(TickerItems(t))}

\* C11: in a snapshot produced by a refresh cycle main and other are in
\* non-increasing order of 24h change, and rows of one list with the same
\* change keep the order of the upstream ticker list.
C11_StableDescendingSort ==
    \A t \in Tasks : Stored(t) =>
        /\ NonIncreasing(ret[t].data)
        /\ NonIncreasing(ret[t].other)
        /\ \A c \in Changes(t) :
            /\ RowsWithChange(ret[t].data, c) = UpstreamKeys(t, 1, c, FALSE)
            /\ RowsWithChange(ret[t].other, c) = UpstreamKeys(t, 1, c, TRUE)

C11_Witness ==
    \E t \in Tasks :
        /\ Stored(t)
        /\ Len(ret[t].data) = 2
        /\ ret[t].data[1].change24h = ret[t].data[2].change24h
        /\ ret[t].data[1].symbol # ret[t].data[2].symbol
        /\ TickerItems(t)[1].symbol = ETHUSDT

RECURSIVE SumOfRows(_)
SumOfRows(rows) ==
    IF rows = <<>> THEN 0 ELSE Head(rows).volume24h + SumOfRows(Tail(rows))

\* C12: totalVolume is the sum of the volume24h of the rows of main and
\* other together, and each row's rank is its 1-based position in its list.
C12_TotalVolumeAndRank ==
    \A t \in Tasks : Stored(t) =>
        /\ ret[t].total_volume = SumOfRows(ret[t].data) + SumOfRows(ret[t].other)
        /\ \A i \in 1..Len(ret[t].data) : ret[t].data[i].rank = i
        /\ \A i \in 1..Len(ret[t].other) : ret[t].other[i].rank = i

C12_Witness ==
    \E t \in Tasks : /\ Stored(t)
                     /\ Len(ret[t].data) > 0 /\ Len(ret[t].other) > 0
                     /\ ret[t].total_volume = 2000002

----------------------------------------------------------------------------
(* Claims about the cache entries over time *)

\* request t's cycle ends in the except branch in this step
TakesExcept(t) == Ends(t) /\ path'[t] = "fallback"

KeysStay == DOMAIN cache \subseteq DOMAIN cache'

ReturnsLastWritten ==
    \A t \in Tasks :
        /\ (TakesExcept(t) /\ HasSnapshot) => (ret'[t] = Snapshot /\ cache' = cache)
        /\ (Ends(t) /\ SomeFailure(t) /\ "binance_tickers_100" \in DOMAIN cache') =>
                ret'[t] = cache'["binance_tickers_100"]

\* C13: a cache key once written is never removed, an expired entry stays
\* in the cache, and a cycle that ends on an upstream failure returns the
\* last value written under the key, however old it is.
C13_NeverEvicted == [][KeysStay /\ ReturnsLastWritten]_vars

C13_Witness ==
    \E t \in Tasks : /\ path[t] = "fallback"
                     /\ HasSnapshot /\ ret[t] = Snapshot
                     /\ tnow[t] - Snapshot.ts >= 10
                     /\ "ls_ratio_batch" \in DOMAIN cache

TickerKeys(t) == {TickerKey(TickerItems(t)[i]) : i \in 1..Len(TickerItems(t))}

\* snap is, whole, the snapshot request t's cycle built
BuiltBy(snap, t) ==
    /\ Stored(t)
    /\ snap = ret[t]
    /\ DOMAIN snap = {"data", "other", "total_volume", "volume_change", "ts"}
    /\ snap.ts = tnow[t]
    /\ \A row \in Rows(snap) : RowKey(row) \in TickerKeys(t)
    /\ snap.total_volume = SumOfRows(snap.data) + SumOfRows(snap.other)

\* C14: the cached snapshot is at every moment the whole snapshot of one
\* refresh cycle, and so is every snapshot a reader was given from the
\* cache: never a mix of two cycles, never a partly built one.
C14_WholeSnapshots ==
    /\ HasSnapshot => \E u \in Tasks : BuiltBy(Snapshot, u)
    /\ \A t \in Tasks : path[t] = "hit" => \E u \in Tasks : BuiltBy(ret[t], u)

C14_Witness ==
    /\ Stored(1) /\ Stored(2)
    /\ ret[1].data # ret[2].data /\ ret[1].other # ret[2].other
    /\ ret[1].ts # ret[2].ts
    /\ HasSnapshot /\ Snapshot = ret[2]

\* a refresh of the snapshot by another request than t is in progress
OtherRefreshing(t) == \E u \in Tasks \ {t} : entry[u] = "tickers" /\ pc[u] \in {"gather", "batch"}

\* C15: a snapshot request arriving while another request's refresh is in
\* progress returns at once, issuing no upstream request and waiting for
\* none, with the last cached snapshot if there is one.
C15_ReadersNeverWait ==
    [][\A t \in Tasks : (Calls(t) /\ OtherRefreshing(t)) =>
            /\ pc'[t] = "done"
            /\ IssuesNothing(t)
            /\ HasSnapshot => ret'[t] = Snapshot]_vars

\* C16: the timestamp stored with the snapshot is the wall-clock time of
\* the step that writes it.
C16_StampedAtWrite ==
    [][\A t \in Tasks : (Ends(t) /\ path'[t] = "stored") =>
            cache'["binance_tickers_100"].ts = now]_vars

SymbolSet(syms) == {syms[i] : i \in 1..Len(syms)}

\* C18 as claimed: whatever way the batch returned, the returned map has
\* entries for input symbols only.
C18_OnlyInputSymbols ==
    \A t \in Tasks : lspath[t] # "none" => DOMAIN lsret[t] \subseteq SymbolSet(symbols[t])

\* the symbol a row shows
SymbolOfRow(row) == CHOOSE s \in Symbols : DisplaySymbol(s) = row.symbol

\* C18: the map of a batch that missed the cache has entries for input
\* symbols only and none for an input symbol without a successful result;
\* a batch served from the cache returns the map an earlier batch fetched,
\* whatever its argument; the join gives a symbol absent from the returned
\* map the ratio {ratio 0, long 0, short 0}.
C18_FetchedOnlyInputSymbols ==
    \A t \in Tasks :
        /\ lspath[t] = "fetched" =>
            /\ DOMAIN lsret[t] \subseteq SymbolSet(symbols[t])
            /\ (bad[t] \ good[t]) \cap DOMAIN lsret[t] = {}
        /\ lspath[t] = "hit" =>
            \E u \in Tasks : lspath[u] = "fetched" /\ lsret[t] = lsret[u]
        /\ Stored(t) =>
            \A row \in Rows(ret[t]) :
                row.lsRatio = IF SymbolOfRow(row) \in DOMAIN lsret[t]
                              THEN lsret[t][SymbolOfRow(row)]
                              ELSE [ratio |-> <<"fin", 0>>, long |-> <<"fin", 0>>,
                                    short |-> <<"fin", 0>>]

C18_Witness ==
    \E t \in Tasks : /\ Stored(t) /\ lspath[t] = "fetched"
                     /\ symbols[t] = <<BTCUSDT>> /\ bad[t] = {BTCUSDT}
                     /\ lsret[t] = EmptyDict
                     /\ Len(ret[t].data) = 1
                     /\ ret[t].data[1].lsRatio.ratio = <<"fin", 0>>

\* C20: no two refresh cycles of the snapshot are in progress at the same
\* time.
C20_OneCycleAtATime ==
    Cardinality({t \in Tasks : entry[t] = "tickers" /\ pc[t] \in {"gather", "batch"}}) <= 1

----------------------------------------------------------------------------
(* SpecRefetch: two calls of fetch_ls_ratio_batch with arguments of their  *)
(* own, and the clock running past the batch TTL.                          *)

RefetchInputs == {<<>>, <<BTCUSDT>>, <<ETHUSDT>>, <<BTCUSDT, ETHUSDT>>}

NextRefetch ==
    \/ \E t \in Tasks, syms \in RefetchInputs : LsCall(t, syms)
    \/ \E t \in Tasks, s \in BatchSymbols : Acquire(t, s)
    \/ \E t \in Tasks, s \in BatchSymbols, resp \in MainLsResponses : Complete(t, s, resp)
    \/ \E t \in Tasks : BatchDone(t)
    \/ Tick(LsTickStep, LsMaxTime)

SpecRefetch == InitBatch /\ [][NextRefetch]_vars

HasBatch == "ls_ratio_batch" \in DOMAIN cache
Batch == cache["ls_ratio_batch"]

\* request t enters fetch_ls_ratio_batch in this step
LsCalls(t) == pc[t] = "idle" /\ pc'[t] # "idle" /\ entry[t] = "ls"

\* request t's batch, which missed the cache, completes in this step
BatchEnds(t) == pc[t] = "batch" /\ pc'[t] = "done" /\ entry[t] = "ls"

\* C17 as claimed: once a batch that missed the cache has completed, with
\* whatever result, a call made less than 300s after that batch began
\* returns at once and issues no per-symbol request.
C17_AnyResultCached ==
    [][\A u \in Tasks :
        (/\ LsCalls(u)
         /\ \E t \in Tasks \ {u} : /\ pc[t] = "done" /\ lspath[t] = "fetched"
                                   /\ now - bnow[t] < 300) =>
            (pc'[u] = "done" /\ lsreq'[u] = lsreq[u])]_vars

\* C17: a batch that missed the cache and gathered a non-empty result
\* caches that whole result under the batch key, an empty result leaves
\* the cache as it was; a call made less than 300s after the cached
\* entry's timestamp issues no per-symbol request and returns the cached
\* map whatever its symbols argument, a call made later fetches anew.
C17_NonEmptyResultCached ==
    [][\A t \in Tasks :
        /\ BatchEnds(t) =>
            IF result[t] # EmptyDict
            THEN cache' = [k \in DOMAIN cache \cup {"ls_ratio_batch"} |->
                            IF k = "ls_ratio_batch"
                            THEN [data |-> result[t], ts |-> bnow[t]]
                            ELSE cache[k]]
            ELSE cache' = cache
        /\ (LsCalls(t) /\ HasBatch) =>
            IF now - Batch.ts < 300
            THEN /\ pc'[t] = "done"
                 /\ lsreq'[t] = lsreq[t] /\ queued'[t] = queued[t]
                 /\ ret'[t] = Batch.data
            ELSE pc'[t] = "batch"]_vars

C17_Witness ==
    \E t, u \in Tasks :
        /\ lspath[u] = "fetched" /\ result[u] # EmptyDict
        /\ pc[t] = "done" /\ lspath[t] = "hit" /\ lsreq[t] = 0
        /\ symbols[t] = <<ETHUSDT>> /\ symbols[u] = <<BTCUSDT>>
        /\ bnow[t] - bnow[u] = 150
        /\ ret[t] = result[u]

\* the other half of C17's case: an empty result was not cached, and the
\* next call fetches again
C17_WitnessEmpty ==
    \E t, u \in Tasks :
        /\ pc[u] = "done" /\ lspath[u] = "fetched" /\ result[u] = EmptyDict
        /\ symbols[u] # <<>>
        /\ pc[t] = "batch" /\ bnow[t] - bnow[u] = 150
        /\ ~HasBatch

----------------------------------------------------------------------------
(* fetch_fear_and_greed.  The index service answers with a JSON object     *)
(* whose "data" is a list of days, newest first (shape "fng"); each day    *)
(* carries its value as text.  change24h is a float quotient; it is kept   *)
(* here as the exact fraction <<numerator, denominator>> in lowest terms.  *)

Day(value, classification) == [value |-> value, value_classification |-> classification]

FngBody(days) == Response(FALSE, 200, "fng", days)

\* int(text): the number, or a ValueError
IsIntText(text) == text \in {"0", "25", "50", "70"}
IntOf(text) ==
    CASE text = "0" -> 0
      [] text = "25" -> 25
      [] text = "50" -> 50
      [] text = "70" -> 70

Abs(n) == IF n < 0 THEN 0 - n ELSE n

RECURSIVE GCD(_, _)
GCD(a, b) == IF b = 0 THEN a ELSE GCD(b, a % b)

\* n / d for d > 0
Quotient(n, d) == <<n \div GCD(Abs(n), d), d \div GCD(Abs(n), d)>>

FloatZero == <<0, 1>>

\* line 251
FngChangeFraction(val_today, val_yesterday) ==
    IF val_yesterday > 0
    THEN Quotient(val_today - val_yesterday, val_yesterday)
    ELSE FloatZero
FngChange(val_today, val_yesterday) ==
    IF val_yesterday > 0
    THEN Quotient((val_today - val_yesterday) * 100, val_yesterday)
    ELSE FloatZero

FngNeutral == [value |-> 50, classification |-> "Neutral", change24h |-> FloatZero]

\* "data" in data and len(data["data"]) >= n
HasDays(resp, n) == resp.shape = "fng" /\ Len(resp.items) >= n

\* lines 246-250 and 258: resp.json() or int() raises
FngRaises(resp) ==
    \/ resp.exc
    \/ resp.shape = "nojson"
    \/ HasDays(resp, 1) /\ ~IsIntText(resp.items[1].value)
    \/ HasDays(resp, 2) /\ ~IsIntText(resp.items[2].value)

\* lines 248-262
FngResult(resp) ==
    IF HasDays(resp, 2)
    THEN [value |-> IntOf(resp.items[1].value),
          classification |-> resp.items[1].value_classification,
          change24h |-> FngChange(IntOf(resp.items[1].value), IntOf(resp.items[2].value))]
    ELSE IF HasDays(resp, 1)
    THEN [value |-> IntOf(resp.items[1].value),
          classification |-> resp.items[1].value_classification,
          change24h |-> FloatZero]
    ELSE FngNeutral

\* lines 236-246: the cache check, then the request is issued
FngCall(t) ==
    /\ pc[t] = "idle" /\ entry[t] = "fng"
    /\ tnow' = [tnow EXCEPT ![t] = now]
    /\ IF Fresh(cache, FNG_KEY, now, FngTTL)
       THEN Return(t, cache[FNG_KEY].data, "hit")
       ELSE pc' = [pc EXCEPT ![t] = "fng"] /\ UNCHANGED retVars
    /\ UNCHANGED <<now, cache, entry, got, sent, batchVars>>

\* lines 246-269: the response arrives
FngDeliver(t, resp) ==
    /\ pc[t] = "fng"
    /\ IF FngRaises(resp)
       THEN /\ cache' = cache
            /\ Return(t, Get(cache, FNG_KEY, [data |-> FngNeutral]).data, "fallback")
       ELSE /\ cache' = Put(cache, FNG_KEY, [data |-> FngResult(resp), ts |-> tnow[t]])
            /\ Return(t, FngResult(resp), "stored")
    /\ UNCHANGED <<now, entry, cycleVars, batchVars>>

----------------------------------------------------------------------------
(* SpecFng: two requests for the index, the clock, and an index service    *)
(* that answers with up to MaxDays days or fails.                          *)

DayChoices ==
    {Day("70", "Greed"), Day("50", "Neutral"), Day("0", "Extreme Fear"),
     Day("25", "Fear"), Day("n/a", "Neutral")}

FngResponses ==
    {Timeout, MalformedText, MalformedDict}
    \cup {FngBody(days) : days \in SeqsUpTo(DayChoices, MaxDays)}

InitFng == InitWith([t \in Tasks |-> "fng"])

NextFng ==
    \/ \E t \in Tasks : FngCall(t)
    \/ \E t \in Tasks, resp \in FngResponses : FngDeliver(t, resp)
    \/ Tick(FngTickStep, FngMaxTime)

SpecFng == InitFng /\ [][NextFng]_vars

\* the change of a result is the number n
IsNumber(change, n) == change[1] = n * change[2] /\ change[2] > 0

\* the change claimed for the days of a response
ChangeAsClaimed(days, change) ==
    LET today == IntOf(days[1].value)
        yesterday == IF Len(days) >= 2 THEN IntOf(days[2].value) ELSE 0
    IN  /\ (Len(days) >= 2 /\ yesterday # 0) =>
            /\ change[1] * yesterday = (today - yesterday) * 100 * change[2]
            /\ change[2] > 0
        /\ (Len(days) >= 2 /\ yesterday = 0) => IsNumber(change, 0)
        /\ Len(days) = 1 => IsNumber(change, 0)
        /\ (Len(days) >= 2 /\ today = 70 /\ yesterday = 50) => IsNumber(change, 40)

\* C19: the change of a result built from the index service's days is
\* (today - yesterday) / yesterday * 100 when there are two days and
\* yesterday is not 0 (70 and 50 give 40.0), 0.0 when yesterday is 0, and
\* 0.0 when there is one day only.
C19_DayOverDayChange ==
    [][\A t \in Tasks, resp \in FngResponses :
        (FngDeliver(t, resp) /\ path'[t] = "stored" /\ HasDays(resp, 1)) =>
            ChangeAsClaimed(resp.items, ret'[t].change24h)]_vars

C19_Witness ==
    \E t \in Tasks : /\ entry[t] = "fng" /\ path[t] = "stored"
                     /\ ret[t].value = 70
                     /\ ret[t].change24h = <<40, 1>>
                     /\ cache["fear_and_greed"].data = ret[t]

----------------------------------------------------------------------------
(* Claims about the order of the steps of concurrent cycles *)

\* the responses of request t's cycle that have arrived
Arrived(t) == {r \in Resources : got[t][r] # Pending}

\* C21: a snapshot is written only by a cycle all four of whose fetches
\* have completed, each of them successfully.
C21_JoinAfterFourSuccesses ==
    \A t \in Tasks : Stored(t) =>
        /\ Arrived(t) = Resources
        /\ \A r \in Resources : ~IsFailure(got[t][r])

\* C25: the timestamp of the cached snapshot never decreases.
C25_TimestampMonotone ==
    [][("binance_tickers_100" \in DOMAIN cache /\ "binance_tickers_100" \in DOMAIN cache')
        => cache'["binance_tickers_100"].ts >= cache["binance_tickers_100"].ts]_vars

----------------------------------------------------------------------------
(* SpecBatchLive: the batch of SpecBatch under the scheduling of the event *)
(* loop.  A fetch_single that can take a slot is run, every issued request *)
(* returns or fails (at the latest by the client's timeout), and the       *)
(* gather returns once its tasks are done.                                 *)

BatchFairness ==
    /\ WF_vars(\E s \in BatchSymbols : Acquire(1, s))
    /\ WF_vars(\E s \in BatchSymbols, resp \in LsResponses : Complete(1, s, resp))
    /\ WF_vars(BatchDone(1))

SpecBatchLive == InitBatch /\ [][NextBatch]_vars /\ BatchFairness

\* every slot is either free or held by a request in flight
SlotsAccounted ==
    \A t \in Tasks : pc[t] = "batch" =>
        /\ sem[t] >= 0
        /\ sem[t] + BagSize(inflight[t]) = SemLimit

\* the batch has returned with every symbol served and every slot free
Drained(t) ==
    /\ pc[t] = "done"
    /\ BagSize(queued[t]) = 0 /\ BagSize(inflight[t]) = 0
    /\ lsreq[t] = Len(symbols[t])
    /\ sem[t] = SemLimit

\* C23: every batch run terminates: each queued symbol obtains a slot,
\* each acquired slot is released whether the request succeeds or fails,
\* and when the batch returns no request is in flight and all 20 slots
\* are free.
C23_BatchTerminates ==
    /\ [](SlotsAccounted)
    /\ \A t \in Tasks : (pc[t] = "batch") ~> Drained(t)

C23_Witness ==
    \E t \in Tasks : /\ Drained(t) /\ lspath[t] = "fetched"
                     /\ Len(symbols[t]) > 20
                     /\ bad[t] # {} /\ good[t] # {}

----------------------------------------------------------------------------
(* fetch_ls_ratio_batch when the HTTP client cannot be set up: the         *)
(* exception is caught at lines 75-77 before any request is issued.        *)

\* line 77: _cache.get(cache_key, {}).get("data", {})
BatchExceptEmpty(c) == EmptyDict
BatchExcept(c) == Get(Get(c, LS_KEY, EmptyDict), "data", EmptyDict)

\* lines 40-45 and 68-77, called on its own
LsCallRaises(t, syms) ==
    /\ pc[t] = "idle" /\ entry[t] = "ls"
    /\ ~Fresh(cache, LS_KEY, now, LsTTL)
    /\ symbols' = [symbols EXCEPT ![t] = syms]
    /\ bnow' = [bnow EXCEPT ![t] = now]
    /\ lspath' = [lspath EXCEPT ![t] = "raised"]
    /\ lsret' = [lsret EXCEPT ![t] = BatchExcept(cache)]
    /\ Return(t, BatchExcept(cache), "raised")
    /\ UNCHANGED <<now, cache, entry, cycleVars, queued, inflight, sem, result, good, bad,
                   lsreq>>

\* lines 99-182 when the batch called at line 141 raises in this way
JoinBatchRaises(t) ==
    /\ pc[t] = "gather"
    /\ \A r \in Resources : got[t][r] # Pending
    /\ ~CycleRaises(got[t])
    /\ ~Fresh(cache, LS_KEY, now, LsTTL)
    /\ symbols' = [symbols EXCEPT ![t] = FetchSymbols(got[t])]
    /\ bnow' = [bnow EXCEPT ![t] = now]
    /\ lspath' = [lspath EXCEPT ![t] = "raised"]
    /\ lsret' = [lsret EXCEPT ![t] = BatchExcept(cache)]
    /\ Finish(t, cache, BatchExcept(cache))
    /\ UNCHANGED <<now, entry, cycleVars, queued, inflight, sem, result, good, bad, lsreq>>

----------------------------------------------------------------------------
(* fetch_binance_funding_rates *)

AbsRate(item) == Abs(Get(item, "lastFundingRate", 0))

\* lines 196-199
UsdtItems(items) ==
    LET Keep(item) == EndsWithUSDT(Get(item, "symbol", <<>>))
    IN  SelectSeq(items, Keep)

\* line 201: sort by abs funding rate, reverse=True (stable)
RECURSIVE InsertByAbs(_, _)
InsertByAbs(sorted, t) ==
    IF sorted = <<>> THEN <<t>>
    ELSE IF AbsRate(Head(sorted)) >= AbsRate(t)
         THEN <<Head(sorted)>> \o InsertByAbs(Tail(sorted), t)
         ELSE <<t>> \o sorted

RECURSIVE SortByAbsFrom(_, _)
SortByAbsFrom(items, sorted) ==
    IF items = <<>> THEN sorted
    ELSE SortByAbsFrom(Tail(items), InsertByAbs(sorted, Head(items)))

\* line 202: usdt_pairs[:20]
Take(items, n) == SubSeq(items, 1, IF Len(items) < n THEN Len(items) ELSE n)

\* lines 196-210
FundingRatesResult(items) ==
    LET top20 == Take(SortByAbsFrom(UsdtItems(items), <<>>), FundingTop)
    IN  [i \in 1..Len(top20) |->
            [rank |-> i,
             symbol |-> DisplaySymbol(top20[i].symbol),
             markPrice |-> Get(top20[i], "markPrice", 0),
             indexPrice |-> Get(top20[i], "indexPrice", 0),
             fundingRate |-> Get(top20[i], "lastFundingRate", 0),
             nextFundingTime |-> Get(top20[i], "nextFundingTime", 0)]]

\* resp.json() raises, or the payload is an object: iterating it yields its
\* keys, and key.get raises
FundingRaises(resp) == resp.exc \/ resp.shape # "list"

\* lines 187-194: the cache check, then the request is issued
FundingCall(t) ==
    /\ pc[t] = "idle" /\ entry[t] = "funding"
    /\ tnow' = [tnow EXCEPT ![t] = now]
    /\ IF Fresh(cache, FUNDING_KEY, now, CacheTTL)
       THEN Return(t, cache[FUNDING_KEY].data, "hit")
       ELSE pc' = [pc EXCEPT ![t] = "funding"] /\ UNCHANGED retVars
    /\ UNCHANGED <<now, cache, entry, got, sent, batchVars>>

\* lines 194-219: the response arrives
FundingDeliver(t, resp) ==
    /\ pc[t] = "funding"
    /\ IF FundingRaises(resp)
       THEN /\ cache' = cache
            /\ Return(t, Get(Get(cache, FUNDING_KEY, EmptyDict), "data", <<>>), "fallback")
       ELSE /\ cache' = Put(cache, FUNDING_KEY,
                            [data |-> FundingRatesResult(resp.items), ts |-> tnow[t]])
            /\ Return(t, FundingRatesResult(resp.items), "stored")
    /\ UNCHANGED <<now, entry, cycleVars, batchVars>>

----------------------------------------------------------------------------
(* fetch_btc_eth_prices.  The ticker of one symbol is a JSON object,       *)
(* carried as the one item of a "dict" response; the error object of the   *)
(* exchange carries none of its fields.                                    *)

Obj(fields) == Response(FALSE, 200, "dict", <<fields>>)

ObjFields(resp) == IF Len(resp.items) = 0 THEN EmptyDict ELSE resp.items[1]

\* lines 291-292
PriceOf(resp) ==
    [price |-> Float(Get(ObjFields(resp), "lastPrice", "0")),
     change |-> Float(Get(ObjFields(resp), "priceChangePercent", "0"))]

\* btc.get on an array, or float() of a text that is no number
PriceRaises(resp) ==
    \/ resp.shape # "dict"
    \/ PriceOf(resp).price = FloatError
    \/ PriceOf(resp).change = FloatError

PricesFallback(c) ==
    Get(Get(c, PRICES_KEY, EmptyDict), "data", [btc |-> EmptyDict, eth |-> EmptyDict])

\* lines 279-286: the cache check, then the BTC request is issued
PricesCall(t) ==
    /\ pc[t] = "idle" /\ entry[t] = "prices"
    /\ tnow' = [tnow EXCEPT ![t] = now]
    /\ IF Fresh(cache, PRICES_KEY, now, CacheTTL)
       THEN Return(t, cache[PRICES_KEY].data, "hit")
       ELSE pc' = [pc EXCEPT ![t] = "btc"] /\ UNCHANGED retVars
    /\ UNCHANGED <<now, cache, entry, got, sent, batchVars>>

\* lines 286-288: the BTC response arrives, the ETH request is issued
PricesBtc(t, resp) ==
    /\ pc[t] = "btc"
    /\ IF resp.exc \/ resp.shape = "nojson"
       THEN /\ Return(t, PricesFallback(cache), "fallback")
            /\ UNCHANGED got
       ELSE /\ got' = [got EXCEPT ![t]["ticker"] = resp]
            /\ pc' = [pc EXCEPT ![t] = "eth"]
            /\ UNCHANGED retVars
    /\ UNCHANGED <<now, cache, entry, tnow, sent, batchVars>>

\* lines 288-299: the ETH response arrives
PricesEth(t, resp) ==
    /\ pc[t] = "eth"
    /\ IF \/ resp.exc \/ resp.shape = "nojson"
          \/ PriceRaises(got[t]["ticker"]) \/ PriceRaises(resp)
       THEN /\ cache' = cache
            /\ Return(t, PricesFallback(cache), "fallback")
       ELSE LET result_ == [btc |-> PriceOf(got[t]["ticker"]), eth |-> PriceOf(resp)]
            IN  /\ cache' = Put(cache, PRICES_KEY, [data |-> result_, ts |-> tnow[t]])
                /\ Return(t, result_, "stored")
    /\ UNCHANGED <<now, entry, cycleVars, batchVars>>

----------------------------------------------------------------------------
(* SpecOps: two requests, each for any of the five fetch operations, the   *)
(* clock running past the batch TTL, and an upstream that answers each     *)
(* request well or not.                                                    *)

Ops == {"tickers", "ls", "fng", "funding", "prices"}

TickerPriced(sym, vol, chg, price) ==
    [symbol |-> sym, quoteVolume |-> vol, priceChangePercent |-> chg, lastPrice |-> price]

OpsResponses(r) ==
    CASE r = "ticker" ->
            {Timeout,
             OkList(<<TickerPriced(BTCUSDT, 2000000, 5, "2")>>),
             OkList(<<TickerPriced(BTCUSDT, 2000000, 5, "n/a")>>)}
      [] r = "funding" -> {OkList(FundingData)}
      [] r = "info" -> {OkList(InfoData)}
      [] r = "klines" -> {OkList(<<Candle(100), Candle(150)>>)}

OpsInputs == {<<>>, <<BTCUSDT>>, <<ETHUSDT>>, <<BTCUSDT, BTCUSDT>>, <<BTCUSDT, ETHUSDT>>}

OpsFngResponses == {Timeout, FngBody(<<Day("70", "Greed"), Day("50", "Neutral")>>)}

OpsFundingResponses == {Timeout, BadStatus, OkList(FundingData)}

OpsPriceResponses ==
    {Timeout, BadStatus, Obj([lastPrice |-> "2", priceChangePercent |-> "0"])}

InitOps == \E e \in [Tasks -> Ops] : InitWith(e)

NextOps ==
    \/ \E t \in Tasks : Call(t)
    \/ \E t \in Tasks, r \in Resources : \E resp \in OpsResponses(r) : Deliver(t, r, resp)
    \/ \E t \in Tasks : Join(t)
    \/ \E t \in Tasks : JoinBatchRaises(t)
    \/ \E t \in Tasks, syms \in OpsInputs : LsCall(t, syms)
    \/ \E t \in Tasks, syms \in OpsInputs : LsCallRaises(t, syms)
    \/ \E t \in Tasks, s \in BatchSymbols : Acquire(t, s)
    \/ \E t \in Tasks, s \in BatchSymbols, resp \in MainLsResponses : Complete(t, s, resp)
    \/ \E t \in Tasks : BatchDone(t)
    \/ \E t \in Tasks : FngCall(t)
    \/ \E t \in Tasks, resp \in OpsFngResponses : FngDeliver(t, resp)
    \/ \E t \in Tasks : FundingCall(t)
    \/ \E t \in Tasks, resp \in OpsFundingResponses : FundingDeliver(t, resp)
    \/ \E t \in Tasks : PricesCall(t)
    \/ \E t \in Tasks, resp \in OpsPriceResponses : PricesBtc(t, resp)
    \/ \E t \in Tasks, resp \in OpsPriceResponses : PricesEth(t, resp)
    \/ Tick(LsTickStep, OpsMaxTime)

SpecOps == InitOps /\ [][NextOps]_vars

----------------------------------------------------------------------------
(* Claims about the requests issued and the cache keys written *)

\* the requests issued for symbol s by request t's batch, had each element
\* of the list been requested once
OncePerElement(t) ==
    /\ \A s \in Symbols : queued[t][s] <= BagOf(symbols[t])[s]
    /\ lsreq[t] + BagSize(queued[t]) = Len(symbols[t])

NoRetryState ==
    \A t \in Tasks :
        /\ \A r \in Resources : sent[t][r] <= 1
        /\ pc[t] = "batch" => OncePerElement(t)
        /\ lspath[t] = "fetched" => (lsreq[t] = Len(symbols[t]) /\ BagSize(queued[t]) = 0)
        /\ lspath[t] \in {"none", "hit", "raised"} /\ pc[t] # "batch" => lsreq[t] = 0

NoRetryStep ==
    \A t \in Tasks :
        /\ pc[t] = "done" => (pc'[t] = "done" /\ sent'[t] = sent[t] /\ lsreq'[t] = lsreq[t])
        /\ sent'[t] # sent[t] => (pc[t] = "idle" /\ pc'[t] = "gather")
        /\ lsreq'[t] # lsreq[t] => (pc[t] = "batch" /\ lsreq'[t] = lsreq[t] + 1)

\* C22: there is no retry: a cycle requests each of the four resources at
\* most once, a batch run requests each element of its symbols list once,
\* a duplicated symbol once per occurrence, and a request that has ended,
\* failed or not, issues nothing more; requests are issued only as a step
\* of a caller's request.
C22_NoRetry == [](NoRetryState) /\ [][NoRetryStep]_vars

C22_Witness ==
    \E t, u \in Tasks :
        /\ entry[t] = "tickers" /\ path[t] = "fallback"
        /\ \A r \in Resources : sent[t][r] = 1
        /\ entry[u] = "ls" /\ lspath[u] = "fetched"
        /\ symbols[u] = <<BTCUSDT, BTCUSDT>> /\ lsreq[u] = 2
        /\ bad[u] = {BTCUSDT}

\* the cache keys an operation may write
OwnKeys(e) ==
    CASE e = "tickers" -> {"binance_tickers_100", "ls_ratio_batch"}
      [] e = "ls" -> {"ls_ratio_batch"}
      [] e = "fng" -> {"fear_and_greed"}
      [] e = "funding" -> {"binance_funding"}
      [] e = "prices" -> {"btc_eth_prices"}

\* the keys whose entry this step adds, removes or replaces
Changed ==
    {k \in DOMAIN cache \cup DOMAIN cache' :
        \/ k \notin DOMAIN cache
        \/ k \notin DOMAIN cache'
        \/ cache'[k] # cache[k]}

\* request t returns in this step
Returns(t) == pc[t] # "done" /\ pc'[t] = "done"

\* the cache changes only in the step in which a request returns, and
\* then in that request's own keys only
OwnKeysOnly ==
    Changed # {} => \E t \in Tasks : Returns(t) /\ Changed \subseteq OwnKeys(entry[t])

ServedFromCache(t) == Returns(t) /\ path'[t] = "hit"

Fails(t) == Returns(t) /\ path'[t] \in {"fallback", "raised"}

\* C24 as claimed: a call served from the cache and a call that fails
\* leave the whole cache unchanged.
C24_FailureChangesNothing ==
    [][/\ OwnKeysOnly
       /\ \A t \in Tasks : (ServedFromCache(t) \/ Fails(t)) => Changed = {}]_vars

\* C24: each operation writes its own keys only (the snapshot key and the
\* batch key for fetch_binance_tickers, its one key for each other); a
\* call served from a fresh entry changes nothing; a call that fails
\* changes nothing, but for a snapshot cycle that fails after its batch
\* step, which may have written the batch key.
C24_OwnKeysOnly ==
    [][/\ OwnKeysOnly
       /\ \A t \in Tasks : ServedFromCache(t) => Changed = {}
       /\ \A t \in Tasks : Fails(t) =>
            IF entry[t] = "tickers" /\ lspath'[t] = "fetched"
            THEN Changed \subseteq {"ls_ratio_batch"}
            ELSE Changed = {}]_vars

C24_Witness ==
    \E t, u \in Tasks :
        /\ entry[t] = "tickers" /\ path[t] = "fallback" /\ lspath[t] = "fetched"
        /\ "ls_ratio_batch" \in DOMAIN cache
        /\ cache["ls_ratio_batch"] = [data |-> result[t], ts |-> bnow[t]]
        /\ "binance_tickers_100" \notin DOMAIN cache
        /\ entry[u] = "prices" /\ path[u] = "stored"
        /\ "btc_eth_prices" \in DOMAIN cache /\ cache["btc_eth_prices"].data = ret[u]

----------------------------------------------------------------------------
(* Claims about a cycle whose batch step fails *)

\* the four fetches of request t's cycle succeeded and its rows can be built
CycleSucceeds(t) ==
    /\ \A r \in Resources : got'[t][r] # Pending /\ ~IsFailure(got'[t][r])
    /\ ~MapRaises(got'[t])

\* the batch step of request t's cycle failed entirely: the client raised,
\* or every per-symbol request failed
BatchFailed(t) ==
    \/ lspath'[t] = "raised"
    \/ lspath'[t] = "fetched" /\ symbols'[t] # <<>> /\ good'[t] = {}

\* the ratio a row is to carry after such a batch: the one cached before
\* for its symbol when the client raised, else the default
RatioAfterFailure(t, row) ==
    IF /\ lspath'[t] = "raised"
       /\ HasBatch
       /\ SymbolOfRow(row) \in DOMAIN Batch.data
    THEN Batch.data[SymbolOfRow(row)]
    ELSE [ratio |-> <<"fin", 0>>, long |-> <<"fin", 0>>, short |-> <<"fin", 0>>]

\* C26: a cycle whose four fetches succeed and whose batch step fails
\* entirely still stores and returns a snapshot, never the fallback; each
\* row carries the ratio cached before for its symbol when the batch
\* client raised and there is one, else {ratio 0, long 0, short 0}.
C26_BatchFailureTolerated ==
    [][\A t \in Tasks : (Ends(t) /\ CycleSucceeds(t) /\ BatchFailed(t)) =>
            /\ path'[t] = "stored"
            /\ "binance_tickers_100" \in DOMAIN cache'
            /\ cache'["binance_tickers_100"] = ret'[t]
            /\ Len(ret'[t].data) + Len(ret'[t].other) = Len(symbols'[t])
            /\ \A row \in Rows(ret'[t]) : row.lsRatio = RatioAfterFailure(t, row)]_vars

C26_Witness ==
    \E t \in Tasks :
        /\ entry[t] = "tickers" /\ Stored(t) /\ lspath[t] = "raised"
        /\ HasBatch /\ bnow[t] - Batch.ts >= 300
        /\ Len(ret[t].data) = 1
        /\ BTCUSDT \in DOMAIN Batch.data
        /\ ret[t].data[1].lsRatio = Batch.data[BTCUSDT]
        /\ ret[t].data[1].lsRatio.ratio = <<"fin", 2>>

\* the other half of C26's case: every per-symbol request failed
C26_WitnessAllFailed ==
    \E t \in Tasks :
        /\ entry[t] = "tickers" /\ Stored(t) /\ lspath[t] = "fetched"
        /\ symbols[t] = <<BTCUSDT>> /\ good[t] = {} /\ bad[t] = {BTCUSDT}
        /\ HasSnapshot /\ Snapshot = ret[t]
        /\ ret[t].data[1].lsRatio.ratio = <<"fin", 0>>

====
